---- MODULE Spec2Model ----
(***************************************************************************)
(* Model of worker/src/router.rs: the path-based Router of workers-rs.     *)
(*                                                                         *)
(* A string (a pattern or a request path) is a sequence of tokens; the     *)
(* tokens "/", ":" and "*" are the characters the matcher gives a meaning, *)
(* every other token stands for a run of ordinary characters.              *)
(* "/a/:x" is <<"/", "a", "/", ":", "x">>.                                 *)
(***************************************************************************)
EXTENDS Integers, Sequences, FiniteSets, TLC

VARIABLES handlers, pc, regs, req, matched, params, invoked, response

vars == <<handlers, pc, regs, req, matched, params, invoked, response>>

\* Number of registration calls made on one Router before it is run.
MaxRegs == 2

\* Option::None of a handler slot, and the absent request, call and response.
NoHandler == [kind |-> "None", fn |-> 0]
NoRoute == <<>>
NoRequest == [method |-> "None", path |-> <<>>]
NoCall == [handler |-> NoHandler]
NoResponse == [ok |-> FALSE, status |-> 0, body |-> "", by |-> "nobody"]
Unresolved == [ok |-> FALSE, status |-> 0, body |-> "", by |-> "pending"]

(***************************************************************************)
(* crate::http::Method: the closed enumeration, in discriminant order;     *)
(* `method as usize` is the position in this list (counted from 1 here).   *)
(***************************************************************************)
MethodEnum ==
  <<"Head", "Get", "Post", "Put", "Patch", "Delete", "Options", "Connect", "Trace">>

Methods == {MethodEnum[i] : i \in 1..Len(MethodEnum)}

AsUsize(method) == CHOOSE i \in 1..Len(MethodEnum) : MethodEnum[i] = method

MethodAll == Methods

(***************************************************************************)
(* The patterns the registration calls draw from and the paths requests    *)
(* carry.                                                                  *)
(***************************************************************************)
PatStatic == <<"/", "a", "/", "static">>
PatParam == <<"/", "a", "/", ":", "x">>
PatId == <<"/", "a", "/", ":", "id">>
PatDeep == <<"/", "a", "/", ":", "id", "/", "b">>
PatWild == <<"/", "files", "/", "*", "rest">>
PatFile == <<"/", "files", "/", "x">>

Patterns == {PatStatic, PatParam, PatId, PatDeep, PatWild, PatFile}

PathStatic == <<"/", "a", "/", "static">>
PathOther == <<"/", "a", "/", "other">>
PathFive == <<"/", "a", "/", "5">>
PathDeep == <<"/", "a", "/", "5", "/", "b">>
PathNested == <<"/", "files", "/", "a", "/", "b", "/", "c">>
PathFile == <<"/", "files", "/", "x">>
PathPrefix == <<"/", "files">>
PathShort == <<"/", "a">>
PathElse == <<"/", "b", "/", "static">>

Paths ==
  {PathStatic, PathOther, PathFive, PathDeep, PathNested, PathFile, PathPrefix,
   PathShort, PathElse}

(***************************************************************************)
(* matchit: splitting a string into segments and classifying a segment.    *)
(***************************************************************************)
RECURSIVE PrefixLen(_)
PrefixLen(t) ==
  IF t = <<>> \/ Head(t) = "/" THEN 0 ELSE 1 + PrefixLen(Tail(t))

RECURSIVE Segs(_)
Segs(s) ==
  IF s = <<>> THEN <<>>
  ELSE LET rest == IF Head(s) = "/" THEN Tail(s) ELSE s
           n == PrefixLen(rest)
       IN  <<SubSeq(rest, 1, n)>> \o Segs(SubSeq(rest, n + 1, Len(rest)))

SegKind(seg) ==
  IF seg # <<>> /\ Head(seg) = ":" THEN "param"
  ELSE IF seg # <<>> /\ Head(seg) = "*" THEN "catchall"
  ELSE "static"

SegName(seg) == Tail(seg)

RECURSIVE JoinSegs(_)
JoinSegs(ps) ==
  IF Len(ps) = 1 THEN ps[1] ELSE ps[1] \o <<"/">> \o JoinSegs(Tail(ps))

\* Does the route with segments rs match the path with segments ps?
RECURSIVE MatchSegs(_, _)
MatchSegs(rs, ps) ==
  IF rs = <<>> THEN ps = <<>>
  ELSE IF ps = <<>> THEN FALSE
  ELSE CASE SegKind(Head(rs)) = "catchall" -> Head(ps) # <<>>
         [] SegKind(Head(rs)) = "param" ->
              Head(ps) # <<>> /\ MatchSegs(Tail(rs), Tail(ps))
         [] OTHER -> Head(rs) = Head(ps) /\ MatchSegs(Tail(rs), Tail(ps))

Matches(route, path) == MatchSegs(Segs(route), Segs(path))

\* The (name, value) pairs a matching route extracts, in segment order.
RECURSIVE ParamSegs(_, _)
ParamSegs(rs, ps) ==
  IF rs = <<>> \/ ps = <<>> THEN <<>>
  ELSE CASE SegKind(Head(rs)) = "catchall" ->
              << <<SegName(Head(rs)), JoinSegs(ps)>> >>
         [] SegKind(Head(rs)) = "param" ->
              << <<SegName(Head(rs)), Head(ps)>> >> \o ParamSegs(Tail(rs), Tail(ps))
         [] OTHER -> ParamSegs(Tail(rs), Tail(ps))

MatchParams(route, path) == ParamSegs(Segs(route), Segs(path))

\* Precedence at a branching point: static, then parameter, then catch-all.
Rank(seg) ==
  CASE SegKind(seg) = "static" -> 0
    [] SegKind(seg) = "param" -> 1
    [] OTHER -> 2

RECURSIVE Before(_, _)
Before(as, bs) ==
  IF as = <<>> \/ bs = <<>> THEN FALSE
  ELSE IF Rank(Head(as)) # Rank(Head(bs)) THEN Rank(Head(as)) < Rank(Head(bs))
  ELSE Before(Tail(as), Tail(bs))

\* Node::at / Node::at_mut: the route of the tree that a path resolves to.
Candidates(node, path) == {r \in DOMAIN node : Matches(r, path)}

At(node, path) ==
  LET c == Candidates(node, path)
  IN  IF c = {} THEN [found |-> FALSE, route |-> NoRoute, params |-> <<>>]
      ELSE LET best == CHOOSE r \in c :
                         \A q \in c \ {r} : ~Before(Segs(q), Segs(r))
           IN  [found |-> TRUE, route |-> best, params |-> MatchParams(best, path)]

\* Node::insert fails on a route that is present or that declares another
\* parameter or catch-all where a route of the tree declares one.
RECURSIVE Conflicts(_, _)
Conflicts(as, bs) ==
  IF as = <<>> \/ bs = <<>> THEN FALSE
  ELSE IF Head(as) = Head(bs)
       THEN SegKind(Head(as)) # "catchall" /\ Conflicts(Tail(as), Tail(bs))
       ELSE SegKind(Head(as)) # "static" /\ SegKind(Head(bs)) # "static"

InsertFails(node, route) ==
  \E q \in DOMAIN node : q = route \/ Conflicts(Segs(q), Segs(route))

(***************************************************************************)
(* Handlers and handler sets.                                              *)
(***************************************************************************)
EmptySet == [i \in 1..Len(MethodEnum) |-> NoHandler]

\* Faulty variant of Fill: only the first of the methods gets the handler.
FillOnlyFirst(set, func, methods) ==
  LET first == CHOOSE i \in {AsUsize(m) : m \in methods} :
                 \A j \in {AsUsize(m) : m \in methods} : i <= j
  IN  [set EXCEPT ![first] = func]

\* Faulty variant of Fill: the slots of the other methods are emptied.
FillAndClear(set, func, methods) ==
  [i \in DOMAIN set |-> IF \E m \in methods : AsUsize(m) = i THEN func ELSE NoHandler]

\* for method in methods { handler_set[method as usize] = Some(func.clone()) }
Fill(set, func, methods) ==
  [i \in DOMAIN set |-> IF \E m \in methods : AsUsize(m) = i THEN func ELSE set[i]]

\* Faulty variant of AddHandler: a found handler set is replaced, not merged.
AddHandlerReplace(node, pattern, func, methods) ==
  LET m == At(node, pattern)
  IN  IF m.found
      THEN [node |-> [node EXCEPT ![m.route] = Fill(EmptySet, func, methods)],
            landed |-> m.route, panicked |-> FALSE]
      ELSE IF InsertFails(node, pattern)
           THEN [node |-> node, landed |-> NoRoute, panicked |-> TRUE]
           ELSE [node |-> (pattern :> Fill(EmptySet, func, methods)) @@ node,
                 landed |-> pattern, panicked |-> FALSE]

\* Router::add_handler: the tree after the call, the route whose handler set
\* the call wrote, and whether insert's expect() panicked.  The lookup is
\* at_mut(pattern): the pattern's text is matched as a path against the tree.
AddHandler(node, pattern, func, methods) ==
  LET m == At(node, pattern)
  IN  IF m.found
      THEN [node |-> [node EXCEPT ![m.route] = Fill(@, func, methods)],
            landed |-> m.route, panicked |-> FALSE]
      ELSE IF InsertFails(node, pattern)
           THEN [node |-> node, landed |-> NoRoute, panicked |-> TRUE]
           ELSE [node |-> (pattern :> Fill(EmptySet, func, methods)) @@ node,
                 landed |-> pattern, panicked |-> FALSE]

\* for (ident, value) in params.iter() { par.insert(ident.into(), value.into()) }
ToMap(pairs) ==
  [k \in {pairs[i][1] : i \in DOMAIN pairs} |->
     LET last == CHOOSE i \in DOMAIN pairs :
                   pairs[i][1] = k /\ \A j \in DOMAIN pairs : pairs[j][1] = k => j <= i
     IN  pairs[last][2]]

NoParams == ToMap(<<>>)

(***************************************************************************)
(* Responses.                                                              *)
(***************************************************************************)
NotFound == [ok |-> TRUE, status |-> 404, body |-> "Not Found", by |-> "router"]
MethodNotAllowed ==
  [ok |-> TRUE, status |-> 405, body |-> "Method Not Allowed", by |-> "router"]

\* What a handler may produce: responses of any status, or an error.
HandlerResults ==
  { [ok |-> TRUE, status |-> 200, body |-> "done", by |-> "handler"],
    [ok |-> TRUE, status |-> 404, body |-> "Not Found", by |-> "handler"],
    [ok |-> FALSE, status |-> 0, body |-> "application error", by |-> "handler"] }

\* Router::run from the lookup's result m up to the handler call: the branch
\* taken, the route resolved, the RouteParams built and the handler selected.
Miss == [branch |-> "NotFound", route |-> NoRoute, par |-> NoParams, handler |-> NoHandler]

Select(node, route, pairs, method) ==
  LET h == node[route][AsUsize(method)]
  IN  [branch |-> IF h = NoHandler THEN "MethodNotAllowed" ELSE h.kind,
       route |-> route, par |-> ToMap(pairs), handler |-> h]

\* Faulty variant of Dispatch: the matched parameters are not copied.
DispatchDropParams(node, m, method) ==
  IF m.found THEN Select(node, m.route, <<>>, method) ELSE Miss

\* Faulty variant of Dispatch: a miss falls through to some route of the tree.
DispatchFallback(node, m, method) ==
  IF m.found THEN Select(node, m.route, m.params, method)
  ELSE IF DOMAIN node = {} THEN Miss
  ELSE Select(node, CHOOSE r \in DOMAIN node : TRUE, <<>>, method)

\* if let Ok(Match { value, params }) = handlers.at(..) { .. } else 404
Dispatch(node, m, method) ==
  IF m.found THEN Select(node, m.route, m.params, method) ELSE Miss

\* Faulty variant of Forward: a handler's error is turned into a response.
ForwardMasked(result) ==
  IF result.ok THEN result
  ELSE [ok |-> TRUE, status |-> 500, body |-> "Internal Server Error", by |-> "router"]

\* return match handler { Sync(func) => (func)(..), Async(func) => (func)(..).await }
Forward(result) == result

(***************************************************************************)
(* The state machine.  Registration calls build the Router; run consumes   *)
(* it (run takes self by value) with one request.  regs is the history of  *)
(* the registration calls made on the Router that is being built.          *)
(***************************************************************************)
Init ==
  /\ handlers = <<>>
  /\ pc = "building"
  /\ regs = <<>>
  /\ req = NoRequest
  /\ matched = NoRoute
  /\ params = NoParams
  /\ invoked = NoCall
  /\ response = NoResponse

\* A registration call on the Router being built: add_handler's effect on the
\* tree, a panic of its expect() aborting the program, and the call recorded.
\* Every call passes its own function, named by the call's number.
Register(node, calls, pattern, kind, methods) ==
  LET func == [kind |-> kind, fn |-> Len(calls) + 1]
      r == AddHandler(node, pattern, func, methods)
  IN  [handlers |-> r.node,
       pc |-> IF r.panicked THEN "panicked" ELSE "building",
       regs |-> Append(calls, [pattern |-> pattern, handler |-> func,
                               methods |-> methods, landed |-> r.landed])]

get ==
  /\ pc = "building"
  /\ Len(regs) < MaxRegs
  /\ \E pattern \in Patterns :
       \E r \in {Register(handlers, regs, pattern, "Sync", {"Get"})} :
         /\ handlers' = r.handlers
         /\ pc' = r.pc
         /\ regs' = r.regs
  /\ UNCHANGED <<req, matched, params, invoked, response>>

post ==
  /\ pc = "building"
  /\ Len(regs) < MaxRegs
  /\ \E pattern \in Patterns :
       \E r \in {Register(handlers, regs, pattern, "Sync", {"Post"})} :
         /\ handlers' = r.handlers
         /\ pc' = r.pc
         /\ regs' = r.regs
  /\ UNCHANGED <<req, matched, params, invoked, response>>

on ==
  /\ pc = "building"
  /\ Len(regs) < MaxRegs
  /\ \E pattern \in Patterns :
       \E r \in {Register(handlers, regs, pattern, "Sync", MethodAll)} :
         /\ handlers' = r.handlers
         /\ pc' = r.pc
         /\ regs' = r.regs
  /\ UNCHANGED <<req, matched, params, invoked, response>>

get_async ==
  /\ pc = "building"
  /\ Len(regs) < MaxRegs
  /\ \E pattern \in Patterns :
       \E r \in {Register(handlers, regs, pattern, "Async", {"Get"})} :
         /\ handlers' = r.handlers
         /\ pc' = r.pc
         /\ regs' = r.regs
  /\ UNCHANGED <<req, matched, params, invoked, response>>

post_async ==
  /\ pc = "building"
  /\ Len(regs) < MaxRegs
  /\ \E pattern \in Patterns :
       \E r \in {Register(handlers, regs, pattern, "Async", {"Post"})} :
         /\ handlers' = r.handlers
         /\ pc' = r.pc
         /\ regs' = r.regs
  /\ UNCHANGED <<req, matched, params, invoked, response>>

on_async ==
  /\ pc = "building"
  /\ Len(regs) < MaxRegs
  /\ \E pattern \in Patterns :
       \E r \in {Register(handlers, regs, pattern, "Async", MethodAll)} :
         /\ handlers' = r.handlers
         /\ pc' = r.pc
         /\ regs' = r.regs
  /\ UNCHANGED <<req, matched, params, invoked, response>>

\* The results the handler call of branch b can have at the moment run goes on:
\* a Sync handler has returned, an Async handler's future is still pending.
Outcomes(b) == IF b = "Sync" THEN HandlerResults ELSE {Unresolved}

run ==
  /\ pc = "building"
  /\ \E path \in Paths :
       \E m \in {At(handlers, path)} :
         \E method \in Methods :
           \E d \in {Dispatch(handlers, m, method)} :
             \E result \in Outcomes(d.branch) :
               /\ req' = [method |-> method, path |-> path]
               /\ matched' = d.route
               /\ params' = d.par
               /\ invoked' = IF d.handler = NoHandler THEN NoCall
                             ELSE [handler |-> d.handler, result |-> result]
               /\ response' = CASE d.branch = "NotFound" -> NotFound
                                [] d.branch = "MethodNotAllowed" -> MethodNotAllowed
                                [] d.branch = "Sync" -> Forward(result)
                                [] OTHER -> NoResponse
               /\ pc' = IF d.branch = "Async" THEN "pending" ELSE "returned"
  /\ handlers' = <<>>
  /\ regs' = <<>>

\* The future of an Async handler resolves and run returns what it produced.
resolve ==
  /\ pc = "pending"
  /\ \E result \in HandlerResults :
       /\ invoked' = [invoked EXCEPT !.result = result]
       /\ response' = Forward(result)
  /\ pc' = "returned"
  /\ UNCHANGED <<handlers, regs, req, matched, params>>

Next ==
  \/ get
  \/ post
  \/ on
  \/ get_async
  \/ post_async
  \/ on_async
  \/ run
  \/ resolve

Spec == Init /\ [][Next]_vars

(***************************************************************************)
(* Vocabulary of the properties.  A registration step appends one call to  *)
(* regs; a run step leaves the building phase.  What was registered for a  *)
(* pattern is read off the calls that name exactly that pattern.           *)
(***************************************************************************)
RegStep == pc = "building" /\ Len(regs') = Len(regs) + 1

RunStep == pc = "building" /\ pc' \in {"returned", "pending"}

Named == {regs[i].pattern : i \in DOMAIN regs}

RegisteredFor(P, method) ==
  LET calls == {i \in DOMAIN regs : regs[i].pattern = P /\ method \in regs[i].methods}
  IN  IF calls = {} THEN NoHandler
      ELSE regs[CHOOSE i \in calls : \A j \in calls : j <= i].handler

RegisteredSet(P) == [i \in 1..Len(MethodEnum) |-> RegisteredFor(P, MethodEnum[i])]

Declared(P) ==
  {SegName(Segs(P)[k]) : k \in {j \in DOMAIN Segs(P) : SegKind(Segs(P)[j]) # "static"}}

\* path matches P, and no other registered pattern that matches it has precedence.
Preferred(P, path) ==
  /\ Matches(P, path)
  /\ \A Q \in Named \ {P} : Matches(Q, path) => ~Before(Segs(Q), Segs(P))

\* C1: after any sequence of registrations, a path that matches a registered
\* pattern P resolves the handler set registered for P, and the RouteParams
\* built have exactly the names P declares as keys.
C1_RegisteredSetAndParams ==
  [][RunStep =>
       \A P \in Named :
         Preferred(P, req'.path) =>
           /\ matched' \in DOMAIN handlers
           /\ handlers[matched'] = RegisteredSet(P)
           /\ DOMAIN params' = Declared(P)]_vars

\* C2: with /a/static and /a/:x registered for the same method, in either
\* order, /a/static invokes the literal pattern's handler with no parameter and
\* /a/other invokes the parameter pattern's handler with x = "other".
C2_LiteralBeforeParam ==
  [][(/\ RunStep
      /\ Len(regs) = 2
      /\ {regs[1].pattern, regs[2].pattern} = {PatStatic, PatParam}
      /\ req'.method \in regs[1].methods \cap regs[2].methods)
     =>
     LET lit == CHOOSE i \in 1..2 : regs[i].pattern = PatStatic
         par == CHOOSE i \in 1..2 : regs[i].pattern = PatParam
     IN  /\ req'.path = PathStatic =>
              invoked'.handler = regs[lit].handler /\ params' = NoParams
         /\ req'.path = PathOther =>
              /\ invoked'.handler = regs[par].handler
              /\ params' = (<<"x">> :> <<"other">>)]_vars

\* C3: registering the same pattern string twice for different methods merges
\* into one entry: no failure, no second entry, both slots filled with the
\* first call's handler still in place; and after GET then POST of a pattern
\* that has its own entry, a GET request resolving it invokes the GET handler
\* with the declared parameters ("/a/5" on "/a/:id" gives id = "5").
C3_MergeSamePattern ==
  [][/\ (/\ RegStep
         /\ Len(regs) >= 1
         /\ regs'[Len(regs')].pattern = regs[Len(regs)].pattern
         /\ regs'[Len(regs')].methods \cap regs[Len(regs)].methods = {})
        =>
        LET a == regs[Len(regs)]
            b == regs'[Len(regs')]
        IN  /\ pc' = "building"
            /\ b.landed = a.landed
            /\ DOMAIN handlers' = DOMAIN handlers
            /\ \A m \in a.methods : handlers'[b.landed][AsUsize(m)] = a.handler
            /\ \A m \in b.methods : handlers'[b.landed][AsUsize(m)] = b.handler
     /\ (/\ RunStep
         /\ Len(regs) >= 2
         /\ regs[Len(regs) - 1].pattern = regs[Len(regs)].pattern
         /\ regs[Len(regs) - 1].methods = {"Get"}
         /\ regs[Len(regs)].methods = {"Post"}
         /\ regs[Len(regs) - 1].landed = regs[Len(regs)].pattern
         /\ req'.method = "Get"
         /\ Candidates(handlers, req'.path) = {regs[Len(regs)].pattern})
        =>
        /\ invoked'.handler = regs[Len(regs) - 1].handler
        /\ DOMAIN params' = Declared(regs[Len(regs)].pattern)
        /\ (regs[Len(regs)].pattern = PatId /\ req'.path = PathFive)
             => params' = (<<"id">> :> <<"5">>)]_vars

C3_Witness ==
  /\ pc = "building"
  /\ Len(regs) = 2
  /\ regs[1].pattern = PatId /\ regs[1].methods = {"Get"}
  /\ regs[2].pattern = PatId /\ regs[2].methods = {"Post"}
  /\ DOMAIN handlers = {PatId}
  /\ handlers[PatId][AsUsize("Get")].fn = 1
  /\ handlers[PatId][AsUsize("Post")].fn = 2

\* C4: a request whose path matches none of the registered patterns gets the
\* router's 404 Not Found response and no handler is invoked: every run either
\* ends that way or has a registered pattern that matches the request's path.
C4_NotFound ==
  [][RunStep =>
       \/ /\ pc' = "returned"
          /\ response' = NotFound
          /\ invoked' = NoCall
          /\ matched' = NoRoute
       \/ \E P \in Named : Matches(P, req'.path)]_vars

C4_Witness ==
  /\ pc = "returned"
  /\ req.path = PathShort
  /\ matched = NoRoute
  /\ invoked = NoCall
  /\ response.status = 404 /\ response.by = "router"

\* C5: a request whose path matches a registered pattern on which its method
\* was never registered gets the router's 405 response and no handler is
\* invoked.
C5_MethodNotAllowed ==
  [][RunStep =>
       \A P \in Named :
         (Preferred(P, req'.path) /\ RegisteredFor(P, req'.method) = NoHandler)
         => (response' = MethodNotAllowed /\ invoked' = NoCall)]_vars

\* C6: after an all-methods registration of handler h for pattern P that no
\* later registration touches, a request matching P invokes h whichever of the
\* nine methods it carries.
Touches(j, i) ==
  regs[j].pattern = regs[i].pattern \/ regs[j].landed = regs[i].landed

C6_AllMethods ==
  [][RunStep =>
       \A i \in DOMAIN regs :
         (/\ regs[i].methods = Methods
          /\ \A j \in DOMAIN regs : j > i => ~Touches(j, i)
          /\ Matches(regs[i].pattern, req'.path)
          /\ matched' = regs[i].landed)
         => (invoked' # NoCall /\ invoked'.handler = regs[i].handler)]_vars

C6_Witness ==
  /\ pc \in {"returned", "pending"}
  /\ req = [method |-> "Trace", path |-> PathOther]
  /\ matched = PatParam
  /\ invoked # NoCall
  /\ invoked.handler.fn = 1

\* C7: with a pattern ending in a wildcard registered, a path that extends its
\* literal prefix by one or more segments (and matches no registered pattern
\* of higher precedence) resolves that pattern and binds the wildcard's name
\* to the whole remainder of the path, inner slashes included.
EndsInWildcard(P) == Len(P) >= 2 /\ P[Len(P) - 1] = "*"

Extends(P, path) ==
  /\ Len(path) > Len(P) - 2
  /\ SubSeq(path, 1, Len(P) - 2) = SubSeq(P, 1, Len(P) - 2)

C7_Wildcard ==
  [][RunStep =>
       \A P \in Named :
         (/\ EndsInWildcard(P)
          /\ Extends(P, req'.path)
          /\ \A Q \in Named \ {P} :
               Matches(Q, req'.path) => ~Before(Segs(Q), Segs(P)))
         =>
         /\ matched' = P
         /\ params' = (<<P[Len(P)]>> :> SubSeq(req'.path, Len(P) - 1, Len(req'.path)))]_vars

C7_Witness ==
  /\ pc \in {"returned", "pending"}
  /\ req.path = PathNested
  /\ matched = PatWild
  /\ invoked # NoCall
  /\ params = (<<"rest">> :> <<"a", "/", "b", "/", "c">>)

\* C8: when a handler is resolved, run returns exactly what the handler
\* produced; a Sync handler's call never leaves run pending, an Async handler's
\* call leaves it pending until the future resolves; the Router's own
\* responses appear only when no handler was invoked.
C8_Propagation ==
  /\ (pc = "returned" /\ invoked # NoCall) =>
       (invoked.result \in HandlerResults /\ response = invoked.result)
  /\ (pc = "returned" /\ invoked = NoCall) => response \in {NotFound, MethodNotAllowed}
  /\ pc = "pending" =>
       /\ invoked # NoCall
       /\ invoked.handler.kind = "Async"
       /\ invoked.result = Unresolved
       /\ response = NoResponse
  /\ (invoked # NoCall /\ invoked.handler.kind = "Sync") => pc = "returned"
  /\ (invoked # NoCall /\ invoked.handler.kind = "Async" /\ pc = "returned") =>
       invoked.result # Unresolved

C8_Witness ==
  /\ pc = "returned"
  /\ invoked # NoCall
  /\ invoked.handler.kind = "Async"
  /\ ~response.ok
  /\ response.by = "handler"

\* C9: registering a handler for one method on a pattern that was registered
\* before replaces that method's slot only (last registration wins, no
\* failure) and leaves the other eight slots of the pattern as they were.
C9_OverwriteOneSlot ==
  [][RegStep =>
       \A i \in DOMAIN regs :
         (/\ Cardinality(regs'[Len(regs')].methods) = 1
          /\ regs[i].pattern = regs'[Len(regs')].pattern)
         =>
         LET b == regs'[Len(regs')]
         IN  /\ pc' = "building"
             /\ b.landed = regs[i].landed
             /\ DOMAIN handlers' = DOMAIN handlers
             /\ \A k \in 1..Len(MethodEnum) :
                  handlers'[b.landed][k] =
                    IF MethodEnum[k] \in b.methods THEN b.handler
                    ELSE handlers[b.landed][k]]_vars

C9_Witness ==
  /\ pc = "building"
  /\ Len(regs) = 2
  /\ regs[1].pattern = PatParam /\ regs[1].methods = Methods
  /\ regs[2].pattern = PatParam /\ regs[2].methods = {"Get"}
  /\ PatParam \in DOMAIN handlers
  /\ \A i \in 1..Len(MethodEnum) :
       handlers[PatParam][i].fn = IF MethodEnum[i] = "Get" THEN 2 ELSE 1

\* C10: registering a handler for pattern P changes no slot of any other
\* pattern Q registered earlier.
C10_OtherPatternsUntouched ==
  [][RegStep =>
       \A Q \in DOMAIN handlers :
         Q # regs'[Len(regs')].pattern =>
           (Q \in DOMAIN handlers' /\ handlers'[Q] = handlers[Q])]_vars

====
